---- MODULE Spec2Model ----
(***************************************************************************)
(* Black-oil fluid state container (BlackOilFluidStateSimple) and the      *)
(* saturation-line test of the PVT multiplexers.                           *)
(*                                                                         *)
(* Scalars are modelled as integers that stand for distinct floating       *)
(* point values; the class never does arithmetic on the stored values      *)
(* except in internalEnergy.  Assertions are modelled as compiled in       *)
(* (a build without NDEBUG).                                               *)
(***************************************************************************)
EXTENDS Integers, FiniteSets, Sequences, TLC

VARIABLES
    cfg,        \* template arguments of the instantiation + the fluid system's active phases
    fs,         \* the data members of every BlackOilFluidStateSimple object
    tmpStatic,  \* the function-local static of temperature(), one per instantiation
    err,        \* "none", or how the program was ended
    nOps,       \* number of setter and assign calls made so far
    mux,        \* the PVT multiplexers: the active approach and the model object
    pvtRet,     \* what the last property query on a multiplexer returned
    pvtErr,     \* "none", or how the PVT client was ended
    deck,       \* the deck the saturation-line test is run on
    test        \* the locals of testSaturationLine and where the run stands

fsVars == <<cfg, fs, tmpStatic, err, nOps>>

pvtVars == <<mux, pvtRet, pvtErr>>

testVars == <<deck, test>>

vars == <<cfg, fs, tmpStatic, err, nOps, mux, pvtRet, pvtErr, deck, test>>

(***************************************************************************)
(* Bounds and input domains                                                *)
(***************************************************************************)
MaxOps == 2

\* the two objects of the same instantiation
Objs == {"a", "b"}

\* the value handed to the setters; the sources of assign hold other values
Scalars == {1}

\* canonical phase indices: water, oil, gas
numPhases == 3
CanonicalPhases == 0 .. (numPhases - 1)

\* an indeterminate (never assigned) member
Uninit == 0 - 1
\* the payload of a ConditionalStorage whose condition is false
Absent == 0 - 2

\* static_cast<unsigned short>: 16 bit
UShortRange == 65536

\* region indices handed to setPvtRegionIndex (an unsigned)
Regions == {0, 65537}


(***************************************************************************)
(* FluidSystem: the lookup tables between canonical and active phase       *)
(* indices, built once from the set of active phases, and the reservoir    *)
(* temperature of a region.                                                *)
(***************************************************************************)
NoTables ==
    [ canonicalToActive |-> [c \in CanonicalPhases |-> Uninit],
      activeToCanonical |-> [a \in CanonicalPhases |-> Uninit] ]

\* walk the canonical phases in order, giving every active one the next
\* active index
RECURSIVE initPhaseTables(_, _, _, _)
initPhaseTables(active, phaseIdx, activePhaseIdx, tabs) ==
    IF phaseIdx >= numPhases THEN tabs
    ELSE IF phaseIdx \in active
        THEN initPhaseTables(active, phaseIdx + 1, activePhaseIdx + 1,
                 [ canonicalToActive |->
                       [tabs.canonicalToActive EXCEPT ![phaseIdx] = activePhaseIdx],
                   activeToCanonical |->
                       [tabs.activeToCanonical EXCEPT ![activePhaseIdx] = phaseIdx] ])
        ELSE initPhaseTables(active, phaseIdx + 1, activePhaseIdx, tabs)

canonicalToActivePhaseIdx(c) == cfg.tables.canonicalToActive[c]

activeToCanonicalPhaseIdx(a) == cfg.tables.activeToCanonical[a]

reservoirTemperature(r) == 273 + r

(***************************************************************************)
(* The instantiations: the three feature flags, numStoragePhases and the   *)
(* set of phases the fluid system has active.                              *)
(***************************************************************************)
ActiveSets == (SUBSET CanonicalPhases) \ {{}}

Config(t, e, d, n, act) ==
    [ enableTemperature |-> t, enableEnergy |-> e, enableDissolution |-> d,
      numStoragePhases |-> n, active |-> act,
      tables |-> initPhaseTables(act, 0, 0, NoTables) ]

\* every combination of the feature flags, on the default layout: three
\* storage phases, all phases active
FlagConfigs ==
    { Config(t, e, d, numPhases, CanonicalPhases) :
        t \in BOOLEAN, e \in BOOLEAN, d \in BOOLEAN }

\* every compact layout (as many storage phases as active phases, fewer
\* than three), all features enabled
CompactConfigs ==
    { Config(TRUE, TRUE, TRUE, Cardinality(act), act) :
        act \in ActiveSets \ {CanonicalPhases} }

\* the default three storage phases on a fluid system with fewer active
\* phases, all features disabled
SparseConfigs ==
    { Config(FALSE, FALSE, FALSE, numPhases, act) :
        act \in ActiveSets \ {CanonicalPhases} }

Configs == FlagConfigs \cup CompactConfigs \cup SparseConfigs

StorageIdx == 0 .. (cfg.numStoragePhases - 1)

(***************************************************************************)
(* Phase index mapping                                                     *)
(***************************************************************************)
storageToCanonicalPhaseIndex_(storagePhaseIdx) ==
    IF cfg.numStoragePhases = 3
        THEN storagePhaseIdx
        ELSE activeToCanonicalPhaseIdx(storagePhaseIdx)

\* variant: the canonical index is used as the storage index on every layout
canonicalToStoragePhaseIndex_NoRemap(canonicalPhaseIdx) == canonicalPhaseIdx

canonicalToStoragePhaseIndex_(canonicalPhaseIdx) ==
    IF cfg.numStoragePhases = 3
        THEN canonicalPhaseIdx
        ELSE canonicalToActivePhaseIdx(canonicalPhaseIdx)

\* the canonical indices a caller may pass
CallablePhases == cfg.active

(***************************************************************************)
(* Data members after (implicit) construction                              *)
(***************************************************************************)
ConditionalStorage(cond, v) == IF cond THEN v ELSE Absent

NewFluidState(c) ==
    [ temperature_  |-> ConditionalStorage(c.enableTemperature \/ c.enableEnergy, Uninit),
      enthalpy_     |-> [i \in 0 .. (c.numStoragePhases - 1) |->
                            ConditionalStorage(c.enableEnergy, Uninit)],
      pressure_     |-> [i \in 0 .. (c.numStoragePhases - 1) |-> Uninit],
      saturation_   |-> [i \in 0 .. (c.numStoragePhases - 1) |-> Uninit],
      invB_         |-> [i \in 0 .. (c.numStoragePhases - 1) |-> Uninit],
      density_      |-> [i \in 0 .. (c.numStoragePhases - 1) |-> Uninit],
      Rs_           |-> ConditionalStorage(c.enableDissolution, Uninit),
      Rv_           |-> ConditionalStorage(c.enableDissolution, Uninit),
      pvtRegionIdx_ |-> Uninit ]

(***************************************************************************)
(* The setters, as functions of a machine state m = [f, err]: f the data   *)
(* members of the object, err how the call ended.  A call on a program     *)
(* that has already ended does nothing.                                    *)
(***************************************************************************)
Fail(m, how) == [m EXCEPT !.err = how]

setPvtRegionIndex(m, newPvtRegionIdx) ==
    IF m.err # "none" THEN m
    ELSE [m EXCEPT !.f.pvtRegionIdx_ = newPvtRegionIdx % UShortRange]

setPressure(m, phaseIdx, p) ==
    IF m.err # "none" THEN m
    ELSE [m EXCEPT !.f.pressure_[canonicalToStoragePhaseIndex_(phaseIdx)] = p]

\* variant: the saturation setter writes the pressure of the phase as well
setSaturation_AlsoPressure(m, phaseIdx, S) ==
    IF m.err # "none" THEN m
    ELSE [m EXCEPT !.f.saturation_[canonicalToStoragePhaseIndex_(phaseIdx)] = S,
                   !.f.pressure_[canonicalToStoragePhaseIndex_(phaseIdx)] = S]

setSaturation(m, phaseIdx, S) ==
    IF m.err # "none" THEN m
    ELSE [m EXCEPT !.f.saturation_[canonicalToStoragePhaseIndex_(phaseIdx)] = S]

setTemperature(m, value) ==
    IF m.err # "none" THEN m
    ELSE IF ~(cfg.enableTemperature \/ cfg.enableEnergy) THEN Fail(m, "assert")
    ELSE IF m.f.temperature_ = Absent THEN Fail(m, "storage")
    ELSE [m EXCEPT !.f.temperature_ = value]

setEnthalpy(m, phaseIdx, value) ==
    IF m.err # "none" THEN m
    ELSE IF ~(cfg.enableTemperature \/ cfg.enableEnergy) THEN Fail(m, "assert")
    ELSE IF m.f.enthalpy_[canonicalToStoragePhaseIndex_(phaseIdx)] = Absent
        THEN Fail(m, "storage")
    ELSE [m EXCEPT !.f.enthalpy_[canonicalToStoragePhaseIndex_(phaseIdx)] = value]

setInvB(m, phaseIdx, b) ==
    IF m.err # "none" THEN m
    ELSE [m EXCEPT !.f.invB_[canonicalToStoragePhaseIndex_(phaseIdx)] = b]

\* variant: the density is written into the invB_ array
setDensity_IntoInvB(m, phaseIdx, rho) ==
    IF m.err # "none" THEN m
    ELSE [m EXCEPT !.f.invB_[canonicalToStoragePhaseIndex_(phaseIdx)] = rho]

setDensity(m, phaseIdx, rho) ==
    IF m.err # "none" THEN m
    ELSE [m EXCEPT !.f.density_[canonicalToStoragePhaseIndex_(phaseIdx)] = rho]

setRs(m, newRs) ==
    IF m.err # "none" THEN m
    ELSE IF m.f.Rs_ = Absent THEN Fail(m, "storage")
    ELSE [m EXCEPT !.f.Rs_ = newRs]

setRv(m, newRv) ==
    IF m.err # "none" THEN m
    ELSE IF m.f.Rv_ = Absent THEN Fail(m, "storage")
    ELSE [m EXCEPT !.f.Rv_ = newRv]

(***************************************************************************)
(* The accessors: the value a call returns in the current state            *)
(***************************************************************************)
pressure(o, phaseIdx) == fs[o].pressure_[canonicalToStoragePhaseIndex_(phaseIdx)]

saturation(o, phaseIdx) == fs[o].saturation_[canonicalToStoragePhaseIndex_(phaseIdx)]

invB(o, phaseIdx) == fs[o].invB_[canonicalToStoragePhaseIndex_(phaseIdx)]

density(o, phaseIdx) == fs[o].density_[canonicalToStoragePhaseIndex_(phaseIdx)]

enthalpy(o, phaseIdx) == fs[o].enthalpy_[canonicalToStoragePhaseIndex_(phaseIdx)]

pvtRegionIndex(o) == fs[o].pvtRegionIdx_

\* variant: the storage is read whether or not dissolution is enabled
Rs_Unguarded(o) == fs[o].Rs_

Rs(o) == IF ~cfg.enableDissolution THEN 0 ELSE fs[o].Rs_

Rv(o) == IF ~cfg.enableDissolution THEN 0 ELSE fs[o].Rv_

\* Scalar arithmetic is fixed point: quotients keep six decimal digits
Scale == 1000000

\* variant: the pressure is read from the first storage slot
internalEnergy_FirstSlotPressure(o, phaseIdx) ==
    IF fs[o].enthalpy_[canonicalToStoragePhaseIndex_(phaseIdx)] = Absent
        THEN Absent
        ELSE fs[o].enthalpy_[canonicalToStoragePhaseIndex_(phaseIdx)] * Scale
                 - (fs[o].pressure_[0] * Scale) \div density(o, phaseIdx)

\* Absent: the call ends in the access of the disabled enthalpy storage
internalEnergy(o, phaseIdx) ==
    IF fs[o].enthalpy_[canonicalToStoragePhaseIndex_(phaseIdx)] = Absent
        THEN Absent
        ELSE fs[o].enthalpy_[canonicalToStoragePhaseIndex_(phaseIdx)] * Scale
                 - (pressure(o, phaseIdx) * Scale) \div density(o, phaseIdx)

\* the value a call of temperature() made in the current state returns: the
\* static, constructed by this call if no earlier call did, or the member
temperature(o) ==
    IF ~cfg.enableTemperature /\ ~cfg.enableEnergy
        THEN IF tmpStatic = Uninit
                 THEN reservoirTemperature(fs[o].pvtRegionIdx_)
                 ELSE tmpStatic
        ELSE fs[o].temperature_

(***************************************************************************)
(* The sources handed to assign: any object with the canonical accessor    *)
(* surface.  SrcVal gives every quantity of every phase of every source a  *)
(* value of its own.                                                       *)
(***************************************************************************)
SourceIds == {1, 2}

SrcVal(k, q, ph) == 1000 * k + 10 * q + ph

Source(k) ==
    [ temperature    |-> SrcVal(k, 1, 0),
      pvtRegionIndex |-> IF k = 1 THEN 2 ELSE 65537,
      Rs             |-> SrcVal(k, 2, 0),
      Rv             |-> SrcVal(k, 3, 0),
      saturation     |-> [ph \in CanonicalPhases |-> SrcVal(k, 4, ph)],
      pressure       |-> [ph \in CanonicalPhases |-> SrcVal(k, 5, ph)],
      density        |-> [ph \in CanonicalPhases |-> SrcVal(k, 6, ph)],
      enthalpy       |-> [ph \in CanonicalPhases |-> SrcVal(k, 7, ph)],
      invB           |-> [ph \in CanonicalPhases |-> SrcVal(k, 8, ph)] ]

\* the helpers that pull the region index, Rs, Rv and invB out of a source
getPvtRegionIndex_(src) == src.pvtRegionIndex

getRs_(src, pvtRegionIdx) == src.Rs

getRv_(src, pvtRegionIdx) == src.Rv

getInvB_(src, phaseIdx, pvtRegionIdx) == src.invB[phaseIdx]

(***************************************************************************)
(* assign                                                                  *)
(***************************************************************************)
\* variant: the saturation is taken from the object's own pressure
assignPhase_OwnPressure(m, src, storagePhaseIdx, pvtRegionIdx) ==
    LET phaseIdx == storageToCanonicalPhaseIndex_(storagePhaseIdx)
        m1 == setSaturation(m, phaseIdx,
                  m.f.pressure_[canonicalToStoragePhaseIndex_(phaseIdx)])
        m2 == setPressure(m1, phaseIdx, src.pressure[phaseIdx])
        m3 == setDensity(m2, phaseIdx, src.density[phaseIdx])
        m4 == IF cfg.enableEnergy
                  THEN setEnthalpy(m3, phaseIdx, src.enthalpy[phaseIdx])
                  ELSE m3
    IN  setInvB(m4, phaseIdx, getInvB_(src, phaseIdx, pvtRegionIdx))

\* the body of the loop over the storage phases, for one storage phase
assignPhase(m, src, storagePhaseIdx, pvtRegionIdx) ==
    LET phaseIdx == storageToCanonicalPhaseIndex_(storagePhaseIdx)
        m1 == setSaturation(m, phaseIdx, src.saturation[phaseIdx])
        m2 == setPressure(m1, phaseIdx, src.pressure[phaseIdx])
        m3 == setDensity(m2, phaseIdx, src.density[phaseIdx])
        m4 == IF cfg.enableEnergy
                  THEN setEnthalpy(m3, phaseIdx, src.enthalpy[phaseIdx])
                  ELSE m3
    IN  setInvB(m4, phaseIdx, getInvB_(src, phaseIdx, pvtRegionIdx))

\* the loop, from storage phase i on
RECURSIVE assignLoop(_, _, _, _)
assignLoop(m, src, i, pvtRegionIdx) ==
    IF i >= cfg.numStoragePhases THEN m
    ELSE assignLoop(assignPhase(m, src, i, pvtRegionIdx), src, i + 1, pvtRegionIdx)

assign(m, src) ==
    LET m1 == IF cfg.enableTemperature \/ cfg.enableEnergy
                  THEN setTemperature(m, src.temperature)
                  ELSE m
        pvtRegionIdx == getPvtRegionIndex_(src)
        m2 == setPvtRegionIndex(m1, pvtRegionIdx)
        m3 == IF cfg.enableDissolution
                  THEN setRv(setRs(m2, getRs_(src, pvtRegionIdx)),
                             getRv_(src, pvtRegionIdx))
                  ELSE m2
    IN  assignLoop(m3, src, 0, pvtRegionIdx)

(***************************************************************************)
(* The PVT multiplexers: one object per phase, Uninitialized until         *)
(* initFromDeck selects one of the single-phase models of its phase.       *)
(***************************************************************************)
MuxIds == {"gasPvt", "oilPvt", "waterPvt"}

\* the single-phase models a multiplexer can dispatch to
Approaches(m) ==
    CASE m = "oilPvt"   -> {"LiveOilPvt", "DeadOilPvt", "ConstantCompressibilityOilPvt"}
      [] m = "gasPvt"   -> {"WetGasPvt", "DryGasPvt"}
      [] m = "waterPvt" -> {"ConstantCompressibilityWaterPvt"}

\* the property methods of a multiplexer
Methods(m) ==
    {"inverseFormationVolumeFactor", "saturatedInverseFormationVolumeFactor",
     "viscosity", "saturatedViscosity"}
    \cup (IF m = "oilPvt" THEN {"saturatedGasDissolutionFactor"} ELSE {})
    \cup (IF m = "gasPvt" THEN {"saturatedOilVaporizationFactor"} ELSE {})

\* the PVT regions of the decks
PvtRegions == {0, 1}

NoRet == [mux |-> "none", method |-> "none", model |-> "none", region |-> 0]

NewMultiplexer == [approach |-> "Uninitialized", realPvt |-> "null"]

\* no deck has been read
NoDeck == [numPvtRegions |-> 0]

\* the saturation-line test is not being run
NoTest ==
    [ pc |-> "idle", output_all |-> FALSE, regionIdx |-> 0, i |-> 0,
      all_fine |-> TRUE, Rs_old |-> 0, Rv_old |-> 0, failed |-> FALSE ]

\* the multiplexers as constructed; the fluid states are left alone
PvtInit ==
    /\ mux = [m \in MuxIds |-> NewMultiplexer]
    /\ pvtRet = NoRet
    /\ pvtErr = "none"
    /\ cfg = Config(FALSE, FALSE, TRUE, numPhases, CanonicalPhases)
    /\ fs = [o \in Objs |-> NewFluidState(cfg)]
    /\ tmpStatic = Uninit
    /\ err = "none"
    /\ nOps = 0
    /\ deck = NoDeck
    /\ test = NoTest

\* variant: initFromDeck selects an approach whatever the state
MuxInitFromDeck_Retag(m, approach) ==
    /\ pvtErr = "none"
    /\ mux' = [mux EXCEPT ![m] = [approach |-> approach, realPvt |-> approach]]
    /\ UNCHANGED <<pvtRet, pvtErr>>
    /\ UNCHANGED fsVars
    /\ UNCHANGED testVars

\* initFromDeck: the one transition of the multiplexer, Uninitialized to
\* Active, which also constructs the model object of the selected approach
MuxInitFromDeck(m, approach) ==
    /\ pvtErr = "none"
    /\ mux[m].approach = "Uninitialized"
    /\ mux' = [mux EXCEPT ![m] = [approach |-> approach, realPvt |-> approach]]
    /\ UNCHANGED <<pvtRet, pvtErr>>
    /\ UNCHANGED fsVars
    /\ UNCHANGED testVars

\* variant: the query is answered without a look at the approach
MuxQuery_Unchecked(m, method, regionIdx) ==
    /\ pvtErr = "none"
    /\ pvtRet' = [mux |-> m, method |-> method,
                  model |-> mux[m].realPvt, region |-> regionIdx]
    /\ UNCHANGED <<mux, pvtErr>>
    /\ UNCHANGED fsVars
    /\ UNCHANGED testVars

\* a property query: fatal on an Uninitialized multiplexer, otherwise
\* answered by the model object, used as the model the approach names
MuxQuery(m, method, regionIdx) ==
    /\ pvtErr = "none"
    /\ IF mux[m].approach = "Uninitialized"
           THEN /\ pvtErr' = "abort"
                /\ UNCHANGED <<mux, pvtRet>>
           ELSE /\ pvtRet' = [mux |-> m, method |-> method,
                              model |-> mux[m].realPvt, region |-> regionIdx]
                /\ UNCHANGED <<mux, pvtErr>>
    /\ UNCHANGED fsVars
    /\ UNCHANGED testVars

PvtNext ==
    \E m \in MuxIds :
        \/ \E a \in Approaches(m) : MuxInitFromDeck(m, a)
        \/ \E method \in Methods(m), r \in PvtRegions : MuxQuery(m, method, r)

(***************************************************************************)
(* Initial state and the member calls as actions                           *)
(***************************************************************************)
\* the objects as constructed, for one of the instantiations; the
\* multiplexers are left alone
FsInit ==
    /\ cfg \in Configs
    /\ fs = [o \in Objs |-> NewFluidState(cfg)]
    /\ tmpStatic = Uninit
    /\ err = "none"
    /\ nOps = 0
    /\ mux = [m \in MuxIds |-> NewMultiplexer]
    /\ pvtRet = NoRet
    /\ pvtErr = "none"
    /\ deck = NoDeck
    /\ test = NoTest

Machine(o) == [f |-> fs[o], err |-> err]

\* a member call on object o that leaves the machine state m
Call(o, m) ==
    /\ err = "none"
    /\ nOps < MaxOps
    /\ fs' = [fs EXCEPT ![o] = m.f]
    /\ err' = m.err
    /\ nOps' = nOps + 1
    /\ UNCHANGED <<cfg, tmpStatic, mux, pvtRet, pvtErr, deck, test>>

CallSetPvtRegionIndex(o, r) == Call(o, setPvtRegionIndex(Machine(o), r))

CallSetPressure(o, ph, v) == Call(o, setPressure(Machine(o), ph, v))

CallSetSaturation(o, ph, v) == Call(o, setSaturation(Machine(o), ph, v))

CallSetInvB(o, ph, v) == Call(o, setInvB(Machine(o), ph, v))

CallSetDensity(o, ph, v) == Call(o, setDensity(Machine(o), ph, v))

CallSetTemperature(o, v) == Call(o, setTemperature(Machine(o), v))

CallSetEnthalpy(o, ph, v) == Call(o, setEnthalpy(Machine(o), ph, v))

CallSetRs(o, v) == Call(o, setRs(Machine(o), v))

CallSetRv(o, v) == Call(o, setRv(Machine(o), v))

CallAssign(o, k) == Call(o, assign(Machine(o), Source(k)))

\* temperature() changes no member and is not counted in nOps; with both
\* features disabled the static holds the returned value from then on.
\* Callers read the fallback only of an object whose region index is set.
CallTemperature(o) ==
    /\ err = "none"
    /\ IF ~cfg.enableTemperature /\ ~cfg.enableEnergy
           THEN /\ fs[o].pvtRegionIdx_ # Uninit
                /\ tmpStatic' = temperature(o)
           ELSE tmpStatic' = tmpStatic
    /\ UNCHANGED <<cfg, fs, err, nOps, mux, pvtRet, pvtErr, deck, test>>

FsNext ==
    \E o \in Objs :
        \/ \E r \in Regions : CallSetPvtRegionIndex(o, r)
        \/ \E ph \in CallablePhases, v \in Scalars : CallSetPressure(o, ph, v)
        \/ \E ph \in CallablePhases, v \in Scalars : CallSetSaturation(o, ph, v)
        \/ \E ph \in CallablePhases, v \in Scalars : CallSetInvB(o, ph, v)
        \/ \E ph \in CallablePhases, v \in Scalars : CallSetDensity(o, ph, v)
        \/ \E v \in Scalars : CallSetTemperature(o, v)
        \/ \E ph \in CallablePhases, v \in Scalars : CallSetEnthalpy(o, ph, v)
        \/ \E v \in Scalars : CallSetRs(o, v)
        \/ \E v \in Scalars : CallSetRv(o, v)
        \/ \E k \in SourceIds : CallAssign(o, k)
        \/ CallTemperature(o)

(***************************************************************************)
(* Specifications: the fluid state under every sequence of member calls,   *)
(* and the multiplexers under every sequence of client calls               *)
(***************************************************************************)
Spec == FsInit /\ [][FsNext]_vars

PvtSpec == PvtInit /\ [][PvtNext]_vars

(***************************************************************************)
(* Claims on the fluid state                                               *)
(***************************************************************************)
TempDisabled == ~cfg.enableTemperature /\ ~cfg.enableEnergy

\* C1: with temperature and energy disabled, a call of temperature() on an
\* object whose region index has been set returns the reservoir temperature
\* of the object's current region index, whatever calls came before.
C1_TemperatureOfCurrentRegion ==
    \A o \in Objs :
        (err = "none" /\ TempDisabled /\ pvtRegionIndex(o) # Uninit)
            => temperature(o) = reservoirTemperature(pvtRegionIndex(o))

(***************************************************************************)
(* A step is a call of the setter on (o, ph) for some value, or an assign  *)
(* on o                                                                    *)
(***************************************************************************)
IsAssign(o) == \E k \in SourceIds : CallAssign(o, k)

\* C2: right after setPressure / setSaturation / setDensity / setInvB on an
\* active canonical phase the matching accessor returns the value set, and
\* a step that is neither that setter on that phase of that object nor an
\* assign on that object leaves the accessor's value as it was.
C2_AccessorsMirrorSetters ==
    [][\A o \in Objs : \A ph \in CallablePhases :
          /\ \A v \in Scalars :
                /\ pressure(o, ph)' = v \/ ~CallSetPressure(o, ph, v)
                /\ saturation(o, ph)' = v \/ ~CallSetSaturation(o, ph, v)
                /\ density(o, ph)' = v \/ ~CallSetDensity(o, ph, v)
                /\ invB(o, ph)' = v \/ ~CallSetInvB(o, ph, v)
          /\ \/ pressure(o, ph)' = pressure(o, ph)
             \/ \E v \in Scalars : CallSetPressure(o, ph, v)
             \/ IsAssign(o)
          /\ \/ saturation(o, ph)' = saturation(o, ph)
             \/ \E v \in Scalars : CallSetSaturation(o, ph, v)
             \/ IsAssign(o)
          /\ \/ density(o, ph)' = density(o, ph)
             \/ \E v \in Scalars : CallSetDensity(o, ph, v)
             \/ IsAssign(o)
          /\ \/ invB(o, ph)' = invB(o, ph)
             \/ \E v \in Scalars : CallSetInvB(o, ph, v)
             \/ IsAssign(o)
      ]_vars

\* C2 (case reached): on a compact two-phase layout that leaves out water,
\* setPressure on oil was followed by setSaturation on gas, and pressure(oil)
\* still returns what was set
C2_SettersActed ==
    /\ cfg.numStoragePhases = 2 /\ cfg.active = {1, 2}
    /\ pressure("a", 1) = 1
    /\ saturation("a", 2) = 1
    /\ saturation("a", 1) = Uninit
    /\ err = "none"

\* C3: on every layout the two index mappings are inverse to each other,
\* on the storage indices one way and on the active canonical indices the
\* other way; with three storage phases both are the identity.
C3_PhaseIndexRoundTrip ==
    /\ \A i \in StorageIdx :
          canonicalToStoragePhaseIndex_(storageToCanonicalPhaseIndex_(i)) = i
    /\ \A c \in cfg.active :
          storageToCanonicalPhaseIndex_(canonicalToStoragePhaseIndex_(c)) = c
    /\ cfg.numStoragePhases = 3 =>
          \A x \in CanonicalPhases :
              /\ storageToCanonicalPhaseIndex_(x) = x
              /\ canonicalToStoragePhaseIndex_(x) = x

\* C3 (case reached): water and gas active, two storage phases: gas is
\* storage phase 1, and setPressure on gas has written there
C3_CompactLayoutUsed ==
    /\ cfg.numStoragePhases = 2 /\ cfg.active = {0, 2}
    /\ canonicalToStoragePhaseIndex_(2) = 1
    /\ storageToCanonicalPhaseIndex_(1) = 2
    /\ fs["a"].pressure_[1] = 1
    /\ fs["a"].pressure_[0] = Uninit

\* C4: with dissolution disabled Rs() and Rv() return 0 in every state, and
\* an assign never reaches the (absent) Rs_/Rv_ storage: it ends normally
\* and leaves them absent.
C4_NoDissolutionZero ==
    /\ [](~cfg.enableDissolution => \A o \in Objs : Rs(o) = 0 /\ Rv(o) = 0)
    /\ [][~cfg.enableDissolution =>
             \A o \in Objs :
                 \/ ~IsAssign(o)
                 \/ /\ err' = "none"
                    /\ fs'[o].Rs_ = Absent
                    /\ fs'[o].Rv_ = Absent
         ]_vars

\* C4 (case reached): dissolution disabled, a setter and then an assign
\* from source 1 have acted on an object
C4_AssignedWithoutDissolution ==
    /\ ~cfg.enableDissolution
    /\ err = "none"
    /\ nOps = 2
    /\ fs["b"].pvtRegionIdx_ = Uninit
    /\ \A ph \in CallablePhases : pressure("a", ph) = Source(1).pressure[ph]
    /\ Rs("a") = 0 /\ Rv("a") = 0

\* every enabled field of object o is the one assign takes from source k
AssignedFrom(o, k) ==
    LET src == Source(k) IN
    /\ pvtRegionIndex(o) = getPvtRegionIndex_(src)
    /\ \A i \in StorageIdx :
          LET ph == storageToCanonicalPhaseIndex_(i) IN
          /\ saturation(o, ph) = src.saturation[ph]
          /\ pressure(o, ph) = src.pressure[ph]
          /\ density(o, ph) = src.density[ph]
          /\ cfg.enableEnergy => enthalpy(o, ph) = src.enthalpy[ph]
          /\ invB(o, ph) = getInvB_(src, ph, getPvtRegionIndex_(src))
    /\ (cfg.enableTemperature \/ cfg.enableEnergy)
          => fs[o].temperature_ = src.temperature
    /\ cfg.enableDissolution =>
          /\ Rs(o) = getRs_(src, getPvtRegionIndex_(src))
          /\ Rv(o) = getRv_(src, getPvtRegionIndex_(src))

\* C5: after assign(source) every enabled field is the source's: the region
\* index, per storage phase saturation, pressure, density, enthalpy and the
\* derived invB, the temperature, and the derived Rs and Rv.
C5_AssignTakesAllFromSource ==
    [][\A o \in Objs : \A k \in SourceIds :
          CallAssign(o, k) => AssignedFrom(o, k)']_vars

\* C6: assign is idempotent: in every reachable state and for every source,
\* a second assign of the same source right after the first changes nothing.
C6_AssignIdempotent ==
    \A o \in Objs : \A k \in SourceIds :
        LET once == assign(Machine(o), Source(k))
        IN  assign(once, Source(k)) = once

\* C6 (case reached): two calls were made, both on one object, and the
\* object holds exactly what an assign of source 1 leaves
C6_AssignedTwice ==
    /\ nOps = 2
    /\ err = "none"
    /\ fs["b"] = NewFluidState(cfg)
    /\ fs["a"] # NewFluidState(cfg)
    /\ Machine("a") = assign([f |-> NewFluidState(cfg), err |-> "none"], Source(1))

\* C7: setTemperature ends in its assertion unless enableTemperature or
\* enableEnergy, setEnthalpy ends in its assertion whenever enableEnergy is
\* false, and neither ever reaches a disabled storage.
C7_SettersGuardedByOwnFlag ==
    [][\A o \in Objs : \A v \in Scalars :
          /\ (CallSetTemperature(o, v)
                 /\ ~(cfg.enableTemperature \/ cfg.enableEnergy))
                => err' = "assert"
          /\ CallSetTemperature(o, v) => err' # "storage"
          /\ \A ph \in CallablePhases :
                /\ (CallSetEnthalpy(o, ph, v) /\ ~cfg.enableEnergy)
                      => err' = "assert"
                /\ CallSetEnthalpy(o, ph, v) => err' # "storage"
      ]_vars

\* enthalpy - pressure/density of three stored values
Energy(h, p, rho) == h * Scale - (p * Scale) \div rho

\* C12: with enableEnergy, internalEnergy(ph) is enthalpy - pressure/density
\* of the values last stored for canonical phase ph: after setEnthalpy,
\* setPressure or setDensity on ph it is computed from the value just set
\* and the other two as they were, after assign from the source's three
\* values for ph, and every other call leaves it as it was.
C12_InternalEnergyFromLastStored ==
    [][cfg.enableEnergy =>
          \A o \in Objs : \A ph \in CallablePhases :
              /\ \A v \in Scalars :
                    /\ \/ ~CallSetEnthalpy(o, ph, v)
                       \/ internalEnergy(o, ph)' =
                              Energy(v, pressure(o, ph), density(o, ph))
                    /\ \/ ~CallSetPressure(o, ph, v)
                       \/ internalEnergy(o, ph)' =
                              Energy(enthalpy(o, ph), v, density(o, ph))
                    /\ \/ ~CallSetDensity(o, ph, v)
                       \/ internalEnergy(o, ph)' =
                              Energy(enthalpy(o, ph), pressure(o, ph), v)
              /\ \A k \in SourceIds :
                    \/ ~CallAssign(o, k)
                    \/ internalEnergy(o, ph)' =
                           Energy(Source(k).enthalpy[ph], Source(k).pressure[ph],
                                  Source(k).density[ph])
              /\ \/ internalEnergy(o, ph)' = internalEnergy(o, ph)
                 \/ \E v \in Scalars : CallSetEnthalpy(o, ph, v)
                 \/ \E v \in Scalars : CallSetPressure(o, ph, v)
                 \/ \E v \in Scalars : CallSetDensity(o, ph, v)
                 \/ IsAssign(o)
      ]_vars

\* C12 (case reached): oil and gas on two storage phases; after an assign
\* from source 1 the pressure of gas was set: the internal energy of gas is
\* computed from the new pressure, the one of oil from the source's values
C12_EnergyAfterAssignAndSetter ==
    /\ cfg.enableEnergy
    /\ cfg.numStoragePhases = 2 /\ cfg.active = {1, 2}
    /\ err = "none"
    /\ pressure("a", 2) = 1
    /\ internalEnergy("a", 2) = Energy(Source(1).enthalpy[2], 1, Source(1).density[2])
    /\ internalEnergy("a", 1) =
           Energy(Source(1).enthalpy[1], Source(1).pressure[1], Source(1).density[1])
    /\ internalEnergy("a", 1) # internalEnergy("a", 2)

\* the step leaves every member of o but `field` as it was, and the other
\* objects and the static of temperature() as well
OthersKept(o, field) ==
    /\ \A f \in (DOMAIN fs[o]) \ {field} : fs'[o][f] = fs[o][f]
    /\ \A o2 \in Objs \ {o} : fs'[o2] = fs[o2]
    /\ tmpStatic' = tmpStatic

\* the step leaves the array member `field` of o as it was for every storage
\* slot but the one of canonical phase ph
OtherSlotsKept(o, field, ph) ==
    \A i \in StorageIdx \ {canonicalToStoragePhaseIndex_(ph)} :
        fs'[o][field][i] = fs[o][field][i]

\* C13: a per-phase setter called with an active canonical phase changes
\* only its quantity for that phase: the same quantity reads as before for
\* every other active phase, and every other member of the object, the
\* other objects and the static of temperature() are as before; the scalar
\* setters change only their own member.
C13_SettersChangeOnlyTheirField ==
    [][\A o \in Objs : \A v \in Scalars :
          /\ \A ph \in CallablePhases :
                /\ CallSetPressure(o, ph, v) =>
                      /\ OthersKept(o, "pressure_")
                      /\ OtherSlotsKept(o, "pressure_", ph)
                      /\ \A q \in CallablePhases \ {ph} :
                            pressure(o, q)' = pressure(o, q)
                /\ CallSetSaturation(o, ph, v) =>
                      /\ OthersKept(o, "saturation_")
                      /\ OtherSlotsKept(o, "saturation_", ph)
                      /\ \A q \in CallablePhases \ {ph} :
                            saturation(o, q)' = saturation(o, q)
                /\ CallSetDensity(o, ph, v) =>
                      /\ OthersKept(o, "density_")
                      /\ OtherSlotsKept(o, "density_", ph)
                      /\ \A q \in CallablePhases \ {ph} :
                            density(o, q)' = density(o, q)
                /\ CallSetInvB(o, ph, v) =>
                      /\ OthersKept(o, "invB_")
                      /\ OtherSlotsKept(o, "invB_", ph)
                      /\ \A q \in CallablePhases \ {ph} :
                            invB(o, q)' = invB(o, q)
                /\ CallSetEnthalpy(o, ph, v) =>
                      /\ OthersKept(o, "enthalpy_")
                      /\ OtherSlotsKept(o, "enthalpy_", ph)
                      /\ \A q \in CallablePhases \ {ph} :
                            enthalpy(o, q)' = enthalpy(o, q)
          /\ CallSetTemperature(o, v) => OthersKept(o, "temperature_")
          /\ CallSetRs(o, v) => OthersKept(o, "Rs_")
          /\ CallSetRv(o, v) => OthersKept(o, "Rv_")
          /\ \A r \in Regions :
                CallSetPvtRegionIndex(o, r) => OthersKept(o, "pvtRegionIdx_")
      ]_vars

\* C13 (case reached): water and gas on two storage phases; setEnthalpy on
\* gas and setSaturation on water have acted on one object: each value sits
\* in its own slot and nothing else was written
C13_TwoSettersActed ==
    /\ cfg.numStoragePhases = 2 /\ cfg.active = {0, 2}
    /\ err = "none"
    /\ enthalpy("a", 2) = 1 /\ enthalpy("a", 0) = Uninit
    /\ saturation("a", 0) = 1 /\ saturation("a", 2) = Uninit
    /\ fs["a"].pressure_ = NewFluidState(cfg).pressure_
    /\ fs["a"].pvtRegionIdx_ = Uninit
    /\ fs["b"] = NewFluidState(cfg)

\* C14: after setPvtRegionIndex(r), pvtRegionIndex() returns r, for every
\* unsigned r; after an assign it returns the region index of the source.
C14_RegionIndexRoundTrip ==
    [][\A o \in Objs :
          /\ \A r \in Regions :
                CallSetPvtRegionIndex(o, r) => pvtRegionIndex(o)' = r
          /\ \A k \in SourceIds :
                CallAssign(o, k) =>
                    pvtRegionIndex(o)' = getPvtRegionIndex_(Source(k))
      ]_vars

\* the step is a member call on object o
CallOn(o) ==
    \/ \E r \in Regions : CallSetPvtRegionIndex(o, r)
    \/ \E ph \in CallablePhases, v \in Scalars :
          \/ CallSetPressure(o, ph, v)
          \/ CallSetSaturation(o, ph, v)
          \/ CallSetInvB(o, ph, v)
          \/ CallSetDensity(o, ph, v)
          \/ CallSetEnthalpy(o, ph, v)
    \/ \E v \in Scalars :
          CallSetTemperature(o, v) \/ CallSetRs(o, v) \/ CallSetRv(o, v)
    \/ \E k \in SourceIds : CallAssign(o, k)
    \/ CallTemperature(o)

\* C15: no member call on one object changes what an accessor of another
\* object of the same type returns: its members stay as they are, and so
\* do Rs(), Rv() and (for an object whose region index is set) the value
\* temperature() returns.
C15_InstancesIsolated ==
    [][\A o \in Objs : \A o2 \in Objs \ {o} :
          CallOn(o) =>
              /\ fs'[o2] = fs[o2]
              /\ Rs(o2)' = Rs(o2)
              /\ Rv(o2)' = Rv(o2)
              /\ (TempDisabled => pvtRegionIndex(o2) # Uninit)
                    => temperature(o2)' = temperature(o2)
      ]_vars

(***************************************************************************)
(* Claims on the PVT multiplexers                                          *)
(***************************************************************************)
\* C8: a multiplexer is either Uninitialized or Active with one of the
\* approaches of its phase; its approach changes only from Uninitialized,
\* so once Active the approach stays what it is.
C8_ApproachSetOnce ==
    /\ [](\A m \in MuxIds :
             mux[m].approach \in {"Uninitialized"} \cup Approaches(m))
    /\ [][\A m \in MuxIds :
             mux[m].approach # "Uninitialized"
                 => mux'[m].approach = mux[m].approach]_vars

\* C8 (case reached): the oil multiplexer was initialized as dead oil and
\* has answered a query since; the gas multiplexer is initialized as well
C8_ActiveAndQueried ==
    /\ mux["oilPvt"].approach = "DeadOilPvt"
    /\ mux["gasPvt"].approach = "WetGasPvt"
    /\ pvtRet.mux = "oilPvt"
    /\ pvtRet.method = "saturatedViscosity"

\* C9: a property query on an Uninitialized multiplexer ends the program
\* and returns nothing; in every state the model object is the one the
\* approach names (none while Uninitialized), and a query on an Active
\* multiplexer is answered by the model the approach names.
C9_QueryNeedsInit ==
    /\ [](\A m \in MuxIds :
             IF mux[m].approach = "Uninitialized"
                 THEN mux[m].realPvt = "null"
                 ELSE mux[m].realPvt = mux[m].approach)
    /\ [](pvtRet # NoRet =>
             /\ pvtRet.model = mux[pvtRet.mux].approach
             /\ pvtRet.model \in Approaches(pvtRet.mux))
    /\ [][\A m \in MuxIds : \A method \in Methods(m) : \A r \in PvtRegions :
             (MuxQuery(m, method, r) /\ mux[m].approach = "Uninitialized")
                 => (pvtErr' = "abort" /\ pvtRet' = pvtRet)]_vars

\* C9 (case reached): a query on a multiplexer that was never initialized
\* has ended the program, after another multiplexer had answered one
C9_AbortedOnUninitialized ==
    /\ pvtErr = "abort"
    /\ mux["gasPvt"].approach = "Uninitialized"
    /\ mux["oilPvt"].approach = "LiveOilPvt"
    /\ pvtRet.mux = "oilPvt"

(***************************************************************************)
(* The saturation-line test (testSaturationLine).  Pressures are in units  *)
(* of 1e5 Pa, the differences the consistency checks look at in units of   *)
(* eps.  The test does not compile as written (Rv is declared twice,       *)
(* mu_sat and Rv_old are not declared, a semicolon is missing); it is      *)
(* modelled with mu_sat read as mug_sat and Rv_old as Rsv_old.             *)
(***************************************************************************)
MaxRegions == 2

steps == 50

eps == 1

\* the pressure of step i of the sweep
Pressure(i) == (i * 600) \div steps + 10

\* the saturated breakpoint columns of the decks, over one pressure column
TableKeys == <<100, 300, 500>>

TableVals == { <<50, 120, 150>>, <<80, 80, 80>>, <<50, 120, 120>>, <<150, 120, 50>> }

\* what the deck collaborator hands over: pressure breakpoints strictly
\* increasing, saturated factors not decreasing along them
WellFormedTable(tab) ==
    /\ Len(tab.keys) >= 2
    /\ Len(tab.vals) = Len(tab.keys)
    /\ \A j \in 1 .. (Len(tab.keys) - 1) :
          /\ tab.keys[j] < tab.keys[j + 1]
          /\ tab.vals[j] <= tab.vals[j + 1]

Tables ==
    { tab \in { [keys |-> TableKeys, vals |-> v] : v \in TableVals } :
        WellFormedTable(tab) }

\* the segment of the table used for pressure p: the one p lies in, the
\* first one below the table and the last one above it
segment(tab, p) ==
    LET below == { j \in 1 .. (Len(tab.keys) - 1) : tab.keys[j] <= p }
    IN  IF below = {} THEN 1
        ELSE CHOOSE j \in below : \A k \in below : k <= j

\* variant: the interpolation runs from the wrong end of the segment
eval_Mirrored(tab, p) ==
    LET j == segment(tab, p)
        x0 == tab.keys[j]
        x1 == tab.keys[j + 1]
        y0 == tab.vals[j]
        y1 == tab.vals[j + 1]
    IN  y1 - ((y1 - y0) * (p - x0)) \div (x1 - x0)

\* linear interpolation between the breakpoints, linear extrapolation with
\* the slope of the nearest segment outside them
eval(tab, p) ==
    LET j == segment(tab, p)
        x0 == tab.keys[j]
        x1 == tab.keys[j + 1]
        y0 == tab.vals[j]
        y1 == tab.vals[j + 1]
    IN  y0 + ((y1 - y0) * (p - x0)) \div (x1 - x0)

\* the saturated tables of one PVT region: the decks tabulate both factors
\* over the same breakpoints
RegionData ==
    { [Rs |-> tab, Rv |-> tab] : tab \in Tables }

\* the model each multiplexer selects for a deck
DeckApproaches ==
    { f \in [MuxIds -> UNION { Approaches(m) : m \in MuxIds }] :
        \A m \in MuxIds : f[m] \in Approaches(m) }

\* what Opm::abs(x - x_sat) comes to for the models of the deck, for the oil
\* formation volume factor, the gas one and the gas viscosity
Gaps ==
    { [bo |-> 0, bg |-> 0, mug |-> 0], [bo |-> 2, bg |-> 0, mug |-> 0],
      [bo |-> 0, bg |-> 2, mug |-> 0], [bo |-> 0, bg |-> 0, mug |-> 2] }

Decks ==
    UNION { { [numPvtRegions |-> n, approach |-> ap, region |-> rd, gap |-> g] :
                ap \in DeckApproaches, rd \in [0 .. (n - 1) -> RegionData],
                g \in Gaps } :
            n \in 1 .. MaxRegions }

\* the models without dissolved gas / vaporized oil have no saturated line
saturatedGasDissolutionFactor(regionIdx, p) ==
    IF mux["oilPvt"].realPvt = "LiveOilPvt"
        THEN eval(deck.region[regionIdx].Rs, p)
        ELSE 0

saturatedOilVaporizationFactor(regionIdx, p) ==
    IF mux["gasPvt"].realPvt = "WetGasPvt"
        THEN eval(deck.region[regionIdx].Rv, p)
        ELSE 0

TestInit ==
    /\ deck \in Decks
    /\ \E b \in BOOLEAN : test = [NoTest EXCEPT !.pc = "start", !.output_all = b]
    /\ mux = [m \in MuxIds |-> NewMultiplexer]
    /\ pvtRet = NoRet
    /\ pvtErr = "none"
    /\ cfg = Config(FALSE, FALSE, TRUE, numPhases, CanonicalPhases)
    /\ fs = [o \in Objs |-> NewFluidState(cfg)]
    /\ tmpStatic = Uninit
    /\ err = "none"
    /\ nOps = 0

\* the multiplexers are constructed and initialized from the deck, the
\* locals of the sweep are set up
TestSetup ==
    /\ test.pc = "start"
    /\ mux' = [m \in MuxIds |->
                  [approach |-> deck.approach[m], realPvt |-> deck.approach[m]]]
    /\ test' = [test EXCEPT
                   !.pc = IF 0 < deck.numPvtRegions THEN "loop" ELSE "verdict",
                   !.regionIdx = 0, !.i = 0,
                   !.all_fine = TRUE, !.Rs_old = 0, !.Rv_old = 0]
    /\ UNCHANGED <<pvtRet, pvtErr, deck>>
    /\ UNCHANGED fsVars

\* one pass through the body of the inner loop
TestIteration ==
    /\ test.pc = "loop"
    /\ LET regionIdx == test.regionIdx
           p     == Pressure(test.i)
           RsSat == saturatedGasDissolutionFactor(regionIdx, p)
           RvSat == saturatedOilVaporizationFactor(regionIdx, p)
           boBad  == deck.gap.bo > eps
           muoBad == deck.gap.bo > eps
           bgBad  == deck.gap.bg > eps
           mugBad == deck.gap.mug > eps
           \* the check the body stops in, "none" if it runs through
           stop  == IF boBad \/ test.output_all THEN "bo"
                    ELSE IF muoBad \/ test.output_all THEN "muo"
                    ELSE IF bgBad \/ test.output_all THEN "bg"
                    ELSE IF mugBad \/ test.output_all THEN "mug"
                    ELSE IF RvSat < test.Rv_old THEN "Rv"
                    ELSE IF RsSat < test.Rs_old THEN "Rs"
                    ELSE "none"
           bad   == \/ stop = "bo" /\ boBad
                    \/ stop = "muo" /\ muoBad
                    \/ stop = "bg" /\ bgBad
                    \/ stop = "mug" /\ mugBad
                    \/ stop \in {"Rv", "Rs"}
           lastStep   == ~(test.i + 1 < steps)
           lastRegion == ~(regionIdx + 1 < deck.numPvtRegions)
       IN  IF stop # "none"
               THEN test' = [test EXCEPT
                                !.pc = "aborted",
                                !.all_fine = IF bad /\ stop \notin {"Rv", "Rs"}
                                                 THEN FALSE ELSE @,
                                !.failed = bad]
               ELSE test' = [test EXCEPT
                                !.Rs_old = RsSat, !.Rv_old = RvSat,
                                !.i = IF lastStep THEN 0 ELSE @ + 1,
                                !.regionIdx = IF lastStep THEN @ + 1 ELSE @,
                                !.pc = IF lastStep /\ lastRegion
                                           THEN "verdict" ELSE "loop"]
    /\ UNCHANGED <<mux, pvtRet, pvtErr, deck>>
    /\ UNCHANGED fsVars

\* the verdict after the loops
TestVerdict ==
    /\ test.pc = "verdict"
    /\ test' = [test EXCEPT !.pc = IF ~test.all_fine THEN "aborted" ELSE "fine"]
    /\ UNCHANGED <<mux, pvtRet, pvtErr, deck>>
    /\ UNCHANGED fsVars

TestNext == TestSetup \/ TestIteration \/ TestVerdict

TestSpec == TestInit /\ [][TestNext]_vars

\* the pressures of the sweep, the breakpoints and pressures around them
PressureGrid ==
    { Pressure(i) : i \in 0 .. (steps - 1) }
    \cup { TableKeys[j] + d : j \in 1 .. Len(TableKeys), d \in {0 - 1, 0, 1} }
    \cup { 0, 700 }

C16_AbortOnlyOnFailedCheck ==
    (test.output_all /\ test.pc = "aborted") => test.failed

====
